---- MODULE Spec2Model ----
(***************************************************************************)
(* trainer/task.py: the CustomCheckpoints callback (on_train_begin,        *)
(* on_epoch_end, on_train_end, _save_evaluation_plot), the step counter    *)
(* calculate_steps_per_epoch and the orchestrator train_and_evaluate.      *)
(*                                                                         *)
(* Strings are sequences of one-character strings, so that formatting,     *)
(* os.path.join and the substring test `in` are computed, not assumed.     *)
(* Floats are records: a finite loss is its number of tenths (0.9 is       *)
(* Fin(9) and prints as "0.9"), plus np.Inf, NaN and a missing val_loss.   *)
(***************************************************************************)
EXTENDS Integers, Sequences, FiniteSets, TLC

VARIABLES
    pc,                 \* position of the running program
    args,               \* parsed command line (save_from, num_epochs, tboard_dir)
    data,               \* number of batches each data directory yields
    counting,           \* calculate_steps_per_epoch is iterating temp_dataset
    temp_remaining,     \* batches temp_dataset has still to yield
    steps_per_epoch,    \* local counter of calculate_steps_per_epoch
    steps_per_epoch_train,
    steps_per_epoch_validate,
    trace,              \* statements of train_and_evaluate completed so far
    tboard_dir,
    last_epoch_exports, \* paths the final export (line 264) wrote to
    log_dir, start_epoch, period, save_best_only,       \* CustomCheckpoints.__init__
    last_saved_epoch, lowest_loss,                      \* set by on_train_begin
    current_loss, checkpoint_dir,                       \* set by on_epoch_end
    num_epochs, epoch,  \* the fit loop: epochs to run, next epoch index
    run,                \* number of fit calls started
    events_left,        \* epoch-end events this process may still deliver
    last,               \* the latest on_epoch_end call: its inputs and what it wrote
    written,            \* epochs of this run whose export_saved_model completed
    seen,               \* losses on_epoch_end read at the eligible epochs of this run
    scenario_fed,       \* how many events of this run followed ScenarioLosses so far
    printed,            \* the epoch on_train_end printed last
    raised              \* exception that left on_epoch_end last, "none" if none

orchVars == <<args, data, counting, temp_remaining, steps_per_epoch,
              steps_per_epoch_train, steps_per_epoch_validate, trace,
              tboard_dir, last_epoch_exports>>
confVars == <<log_dir, start_epoch, period, save_best_only>>
ctlVars  == <<last_saved_epoch, lowest_loss, current_loss, checkpoint_dir>>
fitVars  == <<num_epochs, epoch, run, events_left>>
obsVars  == <<last, written, seen, scenario_fed>>
vars == <<pc, orchVars, confVars, ctlVars, fitVars, obsVars, printed, raised>>

----
\* Bounds of the model.
MaxEpochs == 4      \* epoch-end events of one process
MaxStart == 2       \* largest start_epoch / --save-from
MaxPeriod == 2      \* largest period
MaxRuns == 2        \* fit calls on one controller
MaxBatches == 1     \* batches of a data directory

----
\* Strings.
Digit(d) == <<"0", "1", "2", "3", "4", "5", "6", "7", "8", "9">>[d + 1]

RECURSIVE IntStr(_)
\* str(n) for a non-negative int, as "{}".format(n) renders it
IntStr(n) == IF n < 10 THEN <<Digit(n)>> ELSE IntStr(n \div 10) \o <<Digit(n % 10)>>

\* Losses.
Fin(v) == [kind |-> "float", v |-> v]
Inf == [kind |-> "inf", v |-> 0]
NaN == [kind |-> "nan", v |-> 0]
NoLoss == [kind |-> "None", v |-> 0]

FiniteTenths == {5, 8, 9, 10}
ReportedLosses == {Fin(v) : v \in FiniteTenths} \cup {Inf, NaN}
Losses == ReportedLosses \cup {NoLoss}

\* str(loss) as "{}".format(loss) renders it
LossStr(l) ==
    CASE l.kind = "float" -> IntStr(l.v \div 10) \o <<".">> \o IntStr(l.v % 10)
      [] l.kind = "inf" -> <<"i", "n", "f">>
      [] l.kind = "nan" -> <<"n", "a", "n">>
      [] l.kind = "None" -> <<"N", "o", "n", "e">>

\* a < b on floats (neither is None)
FloatLess(a, b) ==
    CASE a.kind = "nan" \/ b.kind = "nan" -> FALSE
      [] a.kind = "inf" -> FALSE
      [] b.kind = "inf" -> TRUE
      [] OTHER -> a.v < b.v

----
\* Paths.
Sep == "/"

\* os.path.join(a, b) on a POSIX system
PathJoin(a, b) ==
    IF Len(b) > 0 /\ b[1] = Sep THEN b
    ELSE IF Len(a) = 0 \/ a[Len(a)] = Sep THEN a \o b
    ELSE a \o <<Sep>> \o b

StrCheckpoints == <<"c", "h", "e", "c", "k", "p", "o", "i", "n", "t", "s">>
StrEpoch == <<"e", "p", "o", "c", "h", "_">>
StrLoss == <<"_", "l", "o", "s", "s", "_">>
StrLastEpoch == <<"l", "a", "s", "t", "_", "e", "p", "o", "c", "h">>
StrPlotFile == <<"v", "a", "l", "i", "d", "a", "t", "i", "o", "n", "_",
                 "p", "l", "o", "t", ".", "h", "t", "m", "l">>

\* cst.BUCKET_NAME, cst.TENSORBOARD_DIR and one value of strftime("%Y%m%d-%H%M%S")
BUCKET_NAME == <<"b", "k">>
TENSORBOARD_DIR == <<"g", "s", ":", "/", "/", "b", "k", "/", "t", "b">>
RunTimestr == <<"2", "0", "1", "9", "0", "8", "0", "1", "-", "1", "2", "0", "0", "0", "0">>

\* Log directories: in the bucket, local, and local with the bucket's name in it.
BucketDir == <<"g", "s", ":", "/", "/", "b", "k", "/", "l">>
LocalDir == <<"/", "t", "m", "p", "/", "l">>
LocalBkDir == <<"/", "t", "m", "p", "/", "b", "k">>
LogDirs == {BucketDir, LocalDir, LocalBkDir}
NoneDir == <<"None">>       \* --tboard-dir not given
UnsetDir == <<>>            \* attribute not assigned yet
NoPath == <<>>              \* nothing was written

\* Mutant: the epoch is left out of the name.
CheckpointNameNoEpoch(e, l) == StrEpoch \o StrLoss \o LossStr(l)

\* "epoch_{}_loss_{}".format(epoch, loss)
CheckpointName(e, l) == StrEpoch \o IntStr(e) \o StrLoss \o LossStr(l)

\* os.path.join(self.log_dir, "checkpoints", "epoch_{}_loss_{}".format(...))
CheckpointDir(dir, e, l) ==
    PathJoin(PathJoin(dir, StrCheckpoints), CheckpointName(e, l))

\* os.path.join(checkpoint_dir, file_name)
HtmlDir(dir) == PathJoin(dir, StrPlotFile)

\* needle in hay, on strings
Contains(needle, hay) ==
    \E i \in 1..(Len(hay) - Len(needle) + 1) :
        SubSeq(hay, i, i + Len(needle) - 1) = needle

\* Mutant: html_dir.startswith(cst.BUCKET_NAME).
UsesBucketPrefix(html_dir) ==
    Len(html_dir) >= Len(BUCKET_NAME) /\ SubSeq(html_dir, 1, Len(BUCKET_NAME)) = BUCKET_NAME

\* cst.BUCKET_NAME in html_dir
UsesBucket(html_dir) == Contains(BUCKET_NAME, html_dir)

\* os.path.join(tboard_dir, "checkpoints", "last_epoch")
LastEpochDir(dir) == PathJoin(PathJoin(dir, StrCheckpoints), StrLastEpoch)

----
\* CustomCheckpoints.
NoEpoch == -1                           \* None, as last_saved_epoch
Unset == [kind |-> "unset", v |-> 0]    \* attribute not assigned yet
Unread == [kind |-> "unread", v |-> 0]  \* logs.get('val_loss') was not called
NoBlob == [name |-> NoPath, content_type |-> ""]
NoEvent == [epoch |-> NoEpoch, loss |-> Unread, best |-> Unset,
            export_calls |-> 0, report_calls |-> 0,
            export_path |-> NoPath, upload |-> NoBlob, local_file |-> NoPath]

\* The end-to-end run of losses 1.0, 0.8, 0.9, 0.5 at epochs 0..3.
ScenarioLosses == <<Fin(10), Fin(8), Fin(9), Fin(5)>>
OffScenario == Len(ScenarioLosses) + 1

\* Mutant: checkpoints only strictly after start_epoch.
EligibleAfterStart(e, per, start) == (e % per = 0) /\ (e > start)

\* (epoch % self.period == 0) and (epoch >= self.start_epoch)
Eligible(e, per, start) == (e % per = 0) /\ (e >= start)

\* self.current_loss < self.lowest_loss raises TypeError on None
RaisesTypeError(sbo, cur) == sbo /\ cur = NoLoss

\* Mutant: <= in place of <.
ShouldSaveOrEqual(sbo, cur, low) ==
    IF sbo THEN FloatLess(cur, low) \/ cur = low ELSE TRUE

\* the branch of on_epoch_end that exports
ShouldSave(sbo, cur, low) == IF sbo THEN FloatLess(cur, low) ELSE TRUE

\* Mutant: the tracker is assigned after every export.
UpdatesTrackerAlways(sbo) == TRUE

\* lowest_loss and last_saved_epoch are assigned in the save_best_only branch only
UpdatesTracker(sbo) == sbo

\* Mutants: lowest_loss is initialised only while it is missing; it starts at 0.
BeginLowestLossIfUnset(old) == IF old = Unset THEN Inf ELSE old
BeginLowestLossZero(old) == Fin(0)

\* on_train_begin's assignments
BeginLowestLoss(old) == Inf
BeginLastSavedEpoch(old) == NoEpoch

\* _save_evaluation_plot: the blob it uploads, NoBlob if it writes a local file
PlotUpload(dir) ==
    LET html_dir == HtmlDir(dir) IN
    IF UsesBucket(html_dir)
    THEN [name |-> html_dir, content_type |-> "text/html"]
    ELSE NoBlob

\* _save_evaluation_plot: the local file it writes, NoPath if it uploads
PlotLocalFile(dir) ==
    LET html_dir == HtmlDir(dir) IN
    IF UsesBucket(html_dir) THEN NoPath ELSE html_dir

\* What the outside world does to the two writes of one epoch.
IoOutcomes == {"ok", "export_fails", "report_fails"}

\* on_epoch_end(epoch, logs) with logs.get('val_loss') = l
OnEpochEnd(e, l, io) ==
    LET elig == Eligible(e, period, start_epoch)
        dir == CheckpointDir(log_dir, e, l)
        typeErr == elig /\ RaisesTypeError(save_best_only, l)
        proceed == elig /\ ~typeErr /\ ShouldSave(save_best_only, l, lowest_loss)
        exported == proceed /\ io # "export_fails"
        reported == proceed /\ io = "ok"
        update == reported /\ UpdatesTracker(save_best_only)
    IN  /\ ~proceed => io = "ok"
        /\ current_loss' = IF elig THEN l ELSE current_loss
        /\ checkpoint_dir' = IF elig THEN dir ELSE checkpoint_dir
        /\ lowest_loss' = IF update THEN l ELSE lowest_loss
        /\ last_saved_epoch' = IF update THEN e ELSE last_saved_epoch
        /\ raised' = IF typeErr THEN "TypeError"
                     ELSE IF proceed /\ io = "export_fails" THEN "export_saved_model"
                     ELSE IF proceed /\ io = "report_fails" THEN "_save_evaluation_plot"
                     ELSE "none"
        /\ last' = [epoch |-> e,
                    loss |-> IF elig THEN l ELSE Unread,
                    best |-> lowest_loss,
                    export_calls |-> IF proceed THEN 1 ELSE 0,
                    report_calls |-> IF exported THEN 1 ELSE 0,
                    export_path |-> IF exported THEN dir ELSE NoPath,
                    upload |-> IF reported THEN PlotUpload(dir) ELSE NoBlob,
                    local_file |-> IF reported THEN PlotLocalFile(dir) ELSE NoPath]
        /\ written' = IF exported THEN written \cup {e} ELSE written
        /\ seen' = IF elig THEN seen \cup {l} ELSE seen
        /\ scenario_fed' = IF /\ scenario_fed = e
                              /\ e < Len(ScenarioLosses)
                              /\ l = ScenarioLosses[e + 1]
                           THEN e + 1 ELSE OffScenario

----
\* model.fit, as far as the callback sees it: on_train_begin, on_epoch_end for
\* epochs 0 .. epochs-1 in order, on_train_end. Nothing between the callback and
\* the caller of fit catches an exception.
\* Mutant: the exception is caught and dropped.
PropagatesNever(exc) == FALSE

Propagates(exc) == exc # "none"

FitBegin ==
    /\ pc = "fit_begin"
    /\ last_saved_epoch' = BeginLastSavedEpoch(last_saved_epoch)
    /\ lowest_loss' = BeginLowestLoss(lowest_loss)
    /\ epoch' = 0
    /\ run' = run + 1
    /\ last' = NoEvent
    /\ written' = {}
    /\ seen' = {}
    /\ scenario_fed' = 0
    /\ raised' = "none"
    /\ pc' = "fit_epoch"
    /\ UNCHANGED <<orchVars, confVars, current_loss, checkpoint_dir, num_epochs,
                   events_left, printed>>

FitEpoch(lossSet) ==
    /\ pc = "fit_epoch"
    /\ epoch < num_epochs
    /\ \E l \in lossSet, io \in IoOutcomes : OnEpochEnd(epoch, l, io)
    /\ epoch' = epoch + 1
    /\ events_left' = events_left - 1
    /\ pc' = IF Propagates(raised') THEN "aborted" ELSE "fit_epoch"
    /\ UNCHANGED <<orchVars, confVars, num_epochs, run, printed>>

NotPrinted == -2     \* on_train_end has not run

\* on_train_end: print("Last saved model is from epoch {}".format(...))
FitEnd(after) ==
    /\ pc = "fit_epoch"
    /\ epoch = num_epochs
    /\ printed' = last_saved_epoch
    /\ pc' = after
    /\ UNCHANGED <<confVars, ctlVars, fitVars, obsVars, raised>>

----
\* train_and_evaluate.
Order == <<"steps_train", "steps_validate", "create_datasets", "create_model",
           "create_callbacks", "fit", "export_last">>

\* Mutant: the final export is placed before fit.
StepAfterExportFirst(p) ==
    CASE p = "steps_train" -> "steps_validate"
      [] p = "steps_validate" -> "create_datasets"
      [] p = "create_datasets" -> "create_model"
      [] p = "create_model" -> "create_callbacks"
      [] p = "create_callbacks" -> "export_last"
      [] p = "export_last" -> "fit"
      [] p = "fit" -> "done"

\* the statement that follows statement p
StepAfter(p) ==
    CASE p = "steps_train" -> "steps_validate"
      [] p = "steps_validate" -> "create_datasets"
      [] p = "create_datasets" -> "create_model"
      [] p = "create_model" -> "create_callbacks"
      [] p = "create_callbacks" -> "fit"
      [] p = "fit" -> "export_last"
      [] p = "export_last" -> "done"

\* where the program stands when statement p is the next one
PcOf(p) == IF p = "fit" THEN "fit_begin" ELSE p

\* calculate_steps_per_epoch: create the non-repeating dataset, steps_per_epoch = 0
CountBegin ==
    /\ pc \in {"steps_train", "steps_validate"}
    /\ ~counting
    /\ counting' = TRUE
    /\ temp_remaining' = IF pc = "steps_train" THEN data.train ELSE data.validate
    /\ steps_per_epoch' = 0
    /\ UNCHANGED <<pc, args, data, steps_per_epoch_train, steps_per_epoch_validate,
                   trace, tboard_dir, last_epoch_exports, confVars, ctlVars, fitVars,
                   obsVars, printed, raised>>

\* for batch in temp_dataset: steps_per_epoch += 1
CountBatch ==
    /\ counting
    /\ temp_remaining > 0
    /\ temp_remaining' = temp_remaining - 1
    /\ steps_per_epoch' = steps_per_epoch + 1
    /\ UNCHANGED <<pc, args, data, counting, steps_per_epoch_train,
                   steps_per_epoch_validate, trace, tboard_dir, last_epoch_exports,
                   confVars, ctlVars, fitVars, obsVars, printed, raised>>

\* return steps_per_epoch
CountReturn ==
    /\ counting
    /\ temp_remaining = 0
    /\ counting' = FALSE
    /\ IF pc = "steps_train"
       THEN steps_per_epoch_train' = steps_per_epoch /\ UNCHANGED steps_per_epoch_validate
       ELSE steps_per_epoch_validate' = steps_per_epoch /\ UNCHANGED steps_per_epoch_train
    /\ trace' = Append(trace, pc)
    /\ pc' = PcOf(StepAfter(pc))
    /\ UNCHANGED <<args, data, temp_remaining, steps_per_epoch, tboard_dir,
                   last_epoch_exports, confVars, ctlVars, fitVars, obsVars,
                   printed, raised>>

\* dp.create_dataset twice, split_model.create_keras_model
CreateStep ==
    /\ pc \in {"create_datasets", "create_model"}
    /\ trace' = Append(trace, pc)
    /\ pc' = PcOf(StepAfter(pc))
    /\ UNCHANGED <<args, data, counting, temp_remaining, steps_per_epoch,
                   steps_per_epoch_train, steps_per_epoch_validate, tboard_dir,
                   last_epoch_exports, confVars, ctlVars, fitVars, obsVars,
                   printed, raised>>

\* tboard_dir, then CustomCheckpoints(log_dir=tboard_dir, save_best_only=True,
\* start_epoch=args.save_from, ...) with period left at its default
CreateCallbacks ==
    /\ pc = "create_callbacks"
    /\ tboard_dir' = IF args.tboard_dir = NoneDir
                     THEN PathJoin(TENSORBOARD_DIR, RunTimestr)
                     ELSE args.tboard_dir
    /\ log_dir' = tboard_dir'
    /\ save_best_only' = TRUE
    /\ start_epoch' = args.save_from
    /\ period' = 1
    /\ num_epochs' = args.num_epochs
    /\ trace' = Append(trace, pc)
    /\ pc' = PcOf(StepAfter(pc))
    /\ UNCHANGED <<args, data, counting, temp_remaining, steps_per_epoch,
                   steps_per_epoch_train, steps_per_epoch_validate,
                   last_epoch_exports, ctlVars, epoch, run, events_left, obsVars,
                   printed, raised>>

\* model.fit returns
FitReturn ==
    /\ FitEnd(PcOf(StepAfter("fit")))
    /\ trace' = Append(trace, "fit")
    /\ UNCHANGED <<args, data, counting, temp_remaining, steps_per_epoch,
                   steps_per_epoch_train, steps_per_epoch_validate, tboard_dir,
                   last_epoch_exports>>

\* export_saved_model(model, os.path.join(tboard_dir, "checkpoints", "last_epoch"))
ExportLast ==
    /\ pc = "export_last"
    /\ last_epoch_exports' = Append(last_epoch_exports, LastEpochDir(tboard_dir))
    /\ trace' = Append(trace, pc)
    /\ pc' = PcOf(StepAfter(pc))
    /\ UNCHANGED <<args, data, counting, temp_remaining, steps_per_epoch,
                   steps_per_epoch_train, steps_per_epoch_validate, tboard_dir,
                   confVars, ctlVars, fitVars, obsVars, printed, raised>>

Init ==
    /\ pc = "steps_train"
    /\ args \in [save_from : 0..MaxStart, num_epochs : 0..MaxEpochs,
                 tboard_dir : LogDirs \cup {NoneDir}]
    /\ data \in [train : 0..MaxBatches, validate : 0..MaxBatches]
    /\ counting = FALSE
    /\ temp_remaining = 0
    /\ steps_per_epoch = 0
    /\ steps_per_epoch_train = 0
    /\ steps_per_epoch_validate = 0
    /\ trace = <<>>
    /\ tboard_dir = UnsetDir
    /\ last_epoch_exports = <<>>
    /\ log_dir = UnsetDir
    /\ start_epoch = 0
    /\ period = 1
    /\ save_best_only = FALSE
    /\ last_saved_epoch = NoEpoch
    /\ lowest_loss = Unset
    /\ current_loss = Unset
    /\ checkpoint_dir = UnsetDir
    /\ num_epochs = 0
    /\ epoch = 0
    /\ run = 0
    /\ events_left = MaxEpochs
    /\ last = NoEvent
    /\ written = {}
    /\ seen = {}
    /\ scenario_fed = 0
    /\ printed = NotPrinted
    /\ raised = "none"

\* fit is given validation_data, so logs always carries a val_loss
Next ==
    \/ CountBegin
    \/ CountBatch
    \/ CountReturn
    \/ CreateStep
    \/ CreateCallbacks
    \/ FitBegin
    \/ FitEpoch(ReportedLosses)
    \/ FitReturn
    \/ ExportLast

Spec == Init /\ [][Next]_vars

----
\* The callback on its own: a CustomCheckpoints built with any configuration and
\* handed to fit up to MaxRuns times.
InitCallback ==
    /\ pc = "fit_begin"
    /\ args = [save_from |-> 0, num_epochs |-> 0, tboard_dir |-> NoneDir]
    /\ data = [train |-> 0, validate |-> 0]
    /\ counting = FALSE
    /\ temp_remaining = 0
    /\ steps_per_epoch = 0
    /\ steps_per_epoch_train = 0
    /\ steps_per_epoch_validate = 0
    /\ trace = <<>>
    /\ tboard_dir = UnsetDir
    /\ last_epoch_exports = <<>>
    /\ log_dir \in {LocalDir, BucketDir}
    /\ start_epoch \in 0..MaxStart
    /\ period \in 1..MaxPeriod
    /\ save_best_only \in BOOLEAN
    /\ last_saved_epoch = NoEpoch
    /\ lowest_loss = Unset
    /\ current_loss = Unset
    /\ checkpoint_dir = UnsetDir
    /\ num_epochs \in 0..MaxEpochs
    /\ epoch = 0
    /\ run = 0
    /\ events_left = MaxEpochs
    /\ last = NoEvent
    /\ written = {}
    /\ seen = {}
    /\ scenario_fed = 0
    /\ printed = NotPrinted
    /\ raised = "none"

FitDone ==
    /\ FitEnd("returned")
    /\ UNCHANGED orchVars

\* the same callback object is passed to another fit call
FitAgain ==
    /\ pc \in {"returned", "aborted"}
    /\ run < MaxRuns
    /\ \E n \in 0..events_left : num_epochs' = n
    /\ pc' = "fit_begin"
    /\ UNCHANGED <<orchVars, confVars, ctlVars, epoch, run, events_left, obsVars,
                   printed, raised>>

NextCallback ==
    \/ FitBegin
    \/ FitEpoch(Losses)
    \/ FitDone
    \/ FitAgain

SpecCallback == InitCallback /\ [][NextCallback]_vars

----
\* Helpers of the properties.
IsPrefix(a, b) == Len(a) <= Len(b) /\ SubSeq(b, 1, Len(a)) = a
Range(f) == {f[i] : i \in DOMAIN f}
MaxOf(S) == CHOOSE x \in S : \A y \in S : y <= x
LastWritten == IF written = {} THEN NoEpoch ELSE MaxOf(written)
IsNumber(l) == l.kind \in {"float", "inf", "nan"}
StrictlyLess(l, b) == IsNumber(l) /\ IsNumber(b) /\ FloatLess(l, b)
IoFailures == {"export_saved_model", "_save_evaluation_plot"}
EpochEndStep == pc = "fit_epoch" /\ epoch' = epoch + 1
LastEligible == last.epoch % period = 0 /\ last.epoch >= start_epoch
LastExported == last.export_path # NoPath
LastReported == last.upload # NoBlob \/ last.local_file # NoPath

\* C1: an epoch-end event makes on_epoch_end call the export if and only if
\* epoch % period == 0, epoch >= start_epoch and, under save_best_only, the loss is
\* strictly below the best loss tracked so far; in every other case nothing is
\* exported or reported, and when the condition holds and nothing raises, both the
\* export and the report are written.
C1_ExportIffEligibleAndBetter ==
    last # NoEvent =>
        LET cond == /\ LastEligible
                    /\ save_best_only => StrictlyLess(last.loss, last.best)
        IN  /\ last.export_calls = 1 <=> cond
            /\ ~cond => ~LastExported /\ ~LastReported /\ last.report_calls = 0
            /\ cond /\ raised = "none" => LastExported /\ LastReported

C1_Witness ==
    /\ save_best_only
    /\ last.best.kind = "float"
    /\ LastExported /\ LastReported

\* C2: when training ends, the epoch reported is the epoch of the last checkpoint
\* written during the run, and None is reported only when none was written.
C2_ReportsLastWritten ==
    pc = "returned" => printed = LastWritten

\* C3: within a run lowest_loss never increases, and it changes only at an epoch
\* whose checkpoint was written, where it becomes that epoch's validation loss.
C3_LowestLossNeverIncreases ==
    [][pc = "fit_epoch" =>
         /\ lowest_loss' = lowest_loss \/ FloatLess(lowest_loss', lowest_loss)
         /\ lowest_loss' # lowest_loss =>
                /\ EpochEndStep
                /\ last'.export_path # NoPath
                /\ lowest_loss' = last'.loss]_vars

C3_Witness ==
    /\ lowest_loss.kind = "float"
    /\ last.best.kind = "float"
    /\ FloatLess(lowest_loss, last.best)

C5_PathsNeverCollide ==
    LastExported =>
        /\ last.export_path =
               log_dir \o <<Sep>> \o StrCheckpoints \o <<Sep>> \o StrEpoch
                   \o IntStr(last.epoch) \o StrLoss \o LossStr(last.loss)
        /\ \A e2 \in 0..MaxEpochs, l2 \in Losses :
               <<e2, l2>> # <<last.epoch, last.loss>> =>
                   CheckpointDir(log_dir, e2, l2) # last.export_path

C5_Witness ==
    /\ LastExported
    /\ Cardinality(written) >= 2

\* C6: on_train_begin sets lowest_loss to +inf and last_saved_epoch to None whatever
\* they were, so during and after every run both hold values of that run only.
C6_TrainBeginResets ==
    [][/\ pc = "fit_begin" => lowest_loss' = Inf /\ last_saved_epoch' = NoEpoch
       /\ pc' # "fit_begin" =>
            /\ lowest_loss' \in seen' \cup {Inf}
            /\ last_saved_epoch' \in written' \cup {NoEpoch}]_vars

C6_Witness ==
    /\ run = 2
    /\ pc = "fit_epoch"
    /\ printed \notin {NotPrinted, NoEpoch}
    /\ lowest_loss = Inf
    /\ last_saved_epoch = NoEpoch

\* C7 as stated: after a failed export or report write training is not halted.
C7_FailureDoesNotHaltTraining ==
    raised \in IoFailures => pc # "aborted"

\* C7 as amended: a failed export or report write leaves on_epoch_end and fit as an
\* exception, each write was tried once, the tracker and the last-saved marker keep
\* their values, and the run is halted: no later epoch is processed, on_train_end
\* does not run and the final model is not exported.
C7_FailureSurfacesAndHaltsTraining ==
    raised \in IoFailures =>
        /\ pc = "aborted"
        /\ last.export_calls = 1 /\ last.report_calls <= 1
        /\ lowest_loss = last.best
        /\ last_saved_epoch # last.epoch
        /\ epoch = last.epoch + 1
        /\ printed = NotPrinted
        /\ last_epoch_exports = <<>>
        /\ trace = SubSeq(Order, 1, 5)

C7_Witness ==
    /\ raised = "_save_evaluation_plot"
    /\ pc = "aborted"
    /\ epoch < num_epochs

\* C8: a report is written through exactly one backend: uploaded as text/html when
\* the report path contains the bucket name, written as a local file otherwise.
C8_OneBackendByPath ==
    LET html_dir == last.export_path \o <<Sep>> \o StrPlotFile IN
    /\ ~(last.upload # NoBlob /\ last.local_file # NoPath)
    /\ (last.report_calls = 1 /\ raised = "none") =>
         IF Contains(BUCKET_NAME, html_dir)
         THEN /\ last.upload = [name |-> html_dir, content_type |-> "text/html"]
              /\ last.local_file = NoPath
         ELSE /\ last.local_file = html_dir
              /\ last.upload = NoBlob

C8_Witness ==
    /\ log_dir = LocalBkDir
    /\ last.upload # NoBlob

C10_FirstEligibleAlwaysAccepted ==
    [][(/\ save_best_only
        /\ EpochEndStep
        /\ Eligible(epoch, period, start_epoch)
        /\ seen = {}
        /\ last'.loss \in ReportedLosses) =>
           last'.export_calls = 1]_vars

\* C10 as amended: under save_best_only the first eligible epoch of a run is
\* accepted exactly when its loss is a number strictly below +inf; +inf, NaN and a
\* missing val_loss are not accepted. When accepted and nothing raises, its
\* checkpoint is written and it becomes the best loss.
C10_FirstEligibleAcceptedIffBelowInf ==
    [][(/\ save_best_only
        /\ EpochEndStep
        /\ epoch % period = 0 /\ epoch >= start_epoch
        /\ seen = {}) =>
           /\ last'.export_calls = 1 <=> last'.loss.kind = "float"
           /\ (last'.export_calls = 1 /\ raised' = "none") =>
                /\ written' = {epoch}
                /\ lowest_loss' = last'.loss
                /\ last_saved_epoch' = epoch]_vars

C10_Witness ==
    /\ save_best_only
    /\ written = {last.epoch}
    /\ seen = {Fin(10)}
    /\ lowest_loss = Fin(10)

====
